---- MODULE Spec2Model ----
(***************************************************************************)
(* Model of dexy's configuration compiler and batch orchestrator:          *)
(*   dexy/parser.py   AbstractSyntaxTree (key qualification, the tree of   *)
(*                    task keys) and Parser.walk_ast (task creation)       *)
(*   dexy/wrapper.py  Wrapper.run (the three sweeps over the root tasks)   *)
(*                                                                         *)
(* A Python string is a sequence of one-character strings, so that split,  *)
(* startswith and "in" are computed on the characters as the code does.    *)
(***************************************************************************)
EXTENDS Integers, Sequences, FiniteSets, TLC

VARIABLES
    fs,            \* the filesystem: the set of paths os.path.exists() finds
    lookup_table,  \* AbstractSyntaxTree.lookup_table: key -> dict
    tree,          \* AbstractSyntaxTree.tree: the root keys, in order
    last_op,       \* the last AbstractSyntaxTree call and how it ended
    ops_left,      \* number of AbstractSyntaxTree calls the behaviour may still make
    heap,          \* every task object created so far; a task is its index
    created_tasks, \* walk_ast's local dict of the latest pass: key -> task
    npass,         \* number of walk_ast passes started so far
    root_nodes,    \* Wrapper.root_nodes: tasks, 0 standing for None
    target,        \* Wrapper.target; the empty string stands for False
    state,         \* Wrapper.state
    docs,          \* run()'s local list of the selected roots
    phase_pos,     \* how many items of the current sweep have been taken
    invoked,       \* history: the <<task, Wrapper.state>> of every task() call
    log_ready,     \* setup_log() has run (self.log exists)
    has_db,        \* setup_db() has run (hasattr(self, 'db'))
    batch_id,      \* Wrapper.batch_id, 0 before it is allocated
    db_saves,      \* number of db.save() calls
    graph_built,   \* setup_graph() has run
    pc,            \* where the caller of the wrapper stands
    err,           \* the exception that reached the caller, "" if none
    q_key,         \* key qualifier harness: the raw key under study
    q_once,        \* key qualifier harness: standardize_key(q_key)
    q_twice,       \* key qualifier harness: standardize_key(q_once)
    q_qual,        \* key qualifier harness: qualify_key(q_key)
    a_dir,         \* adjust_task_key harness: the directory argument
    a_cfg,         \* adjust_task_key harness: the config_dirpath argument
    a_out,         \* adjust_task_key harness: what the call returned or raised
    w_todo,        \* Wrapper.walk: the directories os.walk has still to visit
    w_out          \* Wrapper.walk: the (dirpath, filename) pairs yielded so far

vars == <<fs, lookup_table, tree, last_op, ops_left, heap, created_tasks, npass,
          root_nodes, target, state, docs, phase_pos, invoked, log_ready,
          has_db, batch_id, db_saves, graph_built, pc, err,
          q_key, q_once, q_twice, q_qual, a_dir, a_cfg, a_out, w_todo, w_out>>

ast_vars == <<lookup_table, tree, last_op, ops_left>>
walk_vars == <<heap, created_tasks, npass, root_nodes>>
run_vars == <<target, state, docs, phase_pos, invoked, log_ready, has_db,
              batch_id, db_saves, graph_built>>
q_vars == <<q_key, q_once, q_twice, q_qual>>
adj_vars == <<a_dir, a_cfg, a_out>>
scan_vars == <<w_todo, w_out>>

----------------------------------------------------------------------------
(* Bounds of the model *)

\* number of AbstractSyntaxTree calls in one behaviour of the tree and the walk
MaxOps == 3
\* number of AbstractSyntaxTree calls in one behaviour that goes on to run()
MaxRunOps == 2
\* number of walk_ast passes in one behaviour
MaxPasses == 2
\* longest pattern the key qualifier harness draws
MaxPatLen == 3

----------------------------------------------------------------------------
(* Python strings *)

EmptyStr == <<>>

HasChar(s, c) == \E i \in 1..Len(s) : s[i] = c

CountOf(s, c) == Cardinality({i \in 1..Len(s) : s[i] = c})

\* index of the first c in s, 0 when there is none
IndexOf(s, c) ==
    IF HasChar(s, c)
    THEN CHOOSE i \in 1..Len(s) : s[i] = c /\ \A j \in 1..(i-1) : s[j] # c
    ELSE 0

\* s.startswith(p)
startswith(s, p) == Len(p) <= Len(s) /\ SubSeq(s, 1, Len(p)) = p

\* s.split(c)[0]
SplitHead(s, c) ==
    IF HasChar(s, c) THEN SubSeq(s, 1, IndexOf(s, c) - 1) ELSE s

InSeq(x, s) == \E i \in 1..Len(s) : s[i] = x

Range(s) == {s[i] : i \in 1..Len(s)}

\* os.path.exists(path) on the filesystem files
exists(path, files) == path \in files

----------------------------------------------------------------------------
(* The registry of task categories, dexy.task.Task.aliases: every alias of *)
(* a task class maps to that class, whose ALIASES list it is. The doc      *)
(* category is registered under two aliases, so that the first entry of    *)
(* an ALIASES list is not always the alias that was looked up.             *)

DOC == <<"d","o","c">>
DOCS == <<"d","o","c","s">>
BUNDLE == <<"b","u","n","d","l","e">>
PATTERN == <<"p","a","t","t","e","r","n">>

TaskClasses == {<<DOC, DOCS>>, <<BUNDLE>>, <<PATTERN>>}

RegisteredAliases == UNION {Range(c) : c \in TaskClasses}

\* Task.aliases[alias].ALIASES
AliasesOf(alias) == CHOOSE c \in TaskClasses : alias \in Range(c)

----------------------------------------------------------------------------
(* Key qualifier (AbstractSyntaxTree.qualify_key and friends). A result is *)
(* a record whose error field names the exception raised, "" when none.    *)

NoError == ""

\* line 121
standardize_alias(alias) ==
    IF alias \in RegisteredAliases
    THEN [error |-> NoError, alias |-> AliasesOf(alias)[1]]
    ELSE [error |-> "KeyError", alias |-> alias]

\* the mutant tries the bundle rule before it looks at the filesystem
unqualified_bundle_first(key, files) ==
    LET pattern == IF startswith(key, <<".">>) /\ ~exists(key, files)
                   THEN <<"*">> \o key
                   ELSE key
        alias == IF ~HasChar(pattern, ".") /\ ~HasChar(pattern, "|") THEN BUNDLE
                 ELSE IF exists(SplitHead(pattern, "|"), files) THEN DOC
                 ELSE IF HasChar(pattern, "*") THEN PATTERN
                 ELSE DOC
    IN  [alias |-> alias, pattern |-> pattern]

\* lines 99-114: the alias of a key with no ":" in it
unqualified(key, files) ==
    LET pattern == IF startswith(key, <<".">>) /\ ~exists(key, files)
                   THEN <<"*">> \o key
                   ELSE key
        alias == IF exists(SplitHead(pattern, "|"), files) THEN DOC
                 ELSE IF ~HasChar(pattern, ".") /\ ~HasChar(pattern, "|") THEN BUNDLE
                 ELSE IF HasChar(pattern, "*") THEN PATTERN
                 ELSE DOC
    IN  [alias |-> alias, pattern |-> pattern]

qualify_key(key, files) ==
    IF HasChar(key, ":") /\ CountOf(key, ":") # 1
    THEN \* alias, pattern = key.split(":") cannot unpack three or more parts
         [error |-> "ValueError", alias |-> EmptyStr, pattern |-> EmptyStr]
    ELSE LET i == IndexOf(key, ":")
             split == IF HasChar(key, ":")
                      THEN [alias |-> SubSeq(key, 1, i - 1),
                            pattern |-> SubSeq(key, i + 1, Len(key))]
                      ELSE unqualified(key, files)
             std == standardize_alias(split.alias)
         IN  [error |-> std.error, alias |-> std.alias, pattern |-> split.pattern]

\* the mutant passes the two parts to the format in the wrong order
standardize_key_swapped(key, files) ==
    LET q == qualify_key(key, files)
    IN  IF q.error # NoError
        THEN [error |-> q.error, key |-> key]
        ELSE [error |-> NoError, key |-> q.pattern \o <<":">> \o q.alias]

standardize_key(key, files) ==
    LET q == qualify_key(key, files)
    IN  IF q.error # NoError
        THEN [error |-> q.error, key |-> key]
        ELSE [error |-> NoError, key |-> q.alias \o <<":">> \o q.pattern]

----------------------------------------------------------------------------
(* Parser.adjust_task_key, with posixpath.join and posixpath.normpath as   *)
(* the standard library computes them on the characters.                   *)

\* s.split(c)
RECURSIVE split(_, _)
split(s, c) ==
    IF HasChar(s, c)
    THEN <<SplitHead(s, c)>> \o split(SubSeq(s, IndexOf(s, c) + 1, Len(s)), c)
    ELSE <<s>>

\* c.join(parts)
RECURSIVE str_join(_, _)
str_join(parts, c) ==
    IF parts = <<>> THEN EmptyStr
    ELSE IF Len(parts) = 1 THEN parts[1]
    ELSE parts[1] \o <<c>> \o str_join(Tail(parts), c)

\* posixpath.join(a, p)
posixpath_join(a, p) ==
    IF startswith(p, <<"/">>) THEN p
    ELSE IF a = EmptyStr \/ a[Len(a)] = "/" THEN a \o p
    ELSE a \o <<"/">> \o p

\* the loop of posixpath.normpath over the components of the path
RECURSIVE normpath_comps(_, _, _)
normpath_comps(comps, new_comps, initial_slashes) ==
    IF comps = <<>> THEN new_comps
    ELSE LET comp == Head(comps)
             n == Len(new_comps)
         IN  IF comp \in {EmptyStr, <<".">>}
             THEN normpath_comps(Tail(comps), new_comps, initial_slashes)
             ELSE IF \/ comp # <<".", ".">>
                     \/ (initial_slashes = 0 /\ n = 0)
                     \/ (n > 0 /\ new_comps[n] = <<".", ".">>)
             THEN normpath_comps(Tail(comps), Append(new_comps, comp), initial_slashes)
             ELSE IF n > 0
             THEN normpath_comps(Tail(comps), SubSeq(new_comps, 1, n - 1), initial_slashes)
             ELSE normpath_comps(Tail(comps), new_comps, initial_slashes)

posixpath_normpath(path) ==
    IF path = EmptyStr THEN <<".">>
    ELSE LET initial_slashes ==
                 IF ~startswith(path, <<"/">>) THEN 0
                 ELSE IF startswith(path, <<"/", "/">>) /\ ~startswith(path, <<"/", "/", "/">>)
                 THEN 2
                 ELSE 1
             comps == normpath_comps(split(path, "/"), <<>>, initial_slashes)
             out == [i \in 1..initial_slashes |-> "/"] \o str_join(comps, "/")
         IN  IF out = EmptyStr THEN <<".">> ELSE out

\* lines 173-176
adjusted_key(directory, pattern) ==
    IF directory = <<".">>
    THEN pattern
    ELSE posixpath_normpath(posixpath_join(directory, pattern))

\* the mutant accepts a doc only when its file exists
accepts_existing_docs_only(alias, adjusted_task_key, directory, config_dirpath, files) ==
    \/ alias = PATTERN
    \/ alias = DOC /\ exists(SplitHead(adjusted_task_key, "|"), files)
    \/ alias = BUNDLE /\ directory = config_dirpath

\* lines 180-189: the branches that return the key
accepts(alias, adjusted_task_key, directory, config_dirpath, files) ==
    \/ alias = PATTERN
    \/ alias = DOC /\ \/ exists(SplitHead(adjusted_task_key, "|"), files)
                      \/ directory = config_dirpath
    \/ alias = BUNDLE /\ directory = config_dirpath

\* what the call returns: returned is FALSE when it returns None or raises
adjust_task_key(directory, config_dirpath, task_key, files) ==
    LET q == qualify_key(task_key, files)
        adjusted_task_key == adjusted_key(directory, q.pattern)
        qualified_adjusted_task_key == q.alias \o <<":">> \o adjusted_task_key
    IN  IF q.error # NoError
        THEN [error |-> q.error, returned |-> FALSE, key |-> EmptyStr]
        ELSE IF q.alias \notin {PATTERN, DOC, BUNDLE}
        THEN [error |-> "InternalDexyProblem", returned |-> FALSE, key |-> EmptyStr]
        ELSE IF accepts(q.alias, adjusted_task_key, directory, config_dirpath, files)
        THEN [error |-> NoError, returned |-> TRUE, key |-> qualified_adjusted_task_key]
        ELSE [error |-> NoError, returned |-> FALSE, key |-> EmptyStr]

----------------------------------------------------------------------------
(* AbstractSyntaxTree. A lookup_table entry is a Python dict: a function   *)
(* from option names to values that also holds the list of children under  *)
(* the name "children". The option names of a call range over names other  *)
(* than "children".                                                        *)

NoKwargs == [n \in {} |-> TRUE]

\* dict d restricted to the names in S
Restrict(d, S) == [n \in S |-> d[n]]

\* d.update(e): the entries of e win
update(d, e) ==
    [n \in DOMAIN d \cup DOMAIN e |-> IF n \in DOMAIN e THEN e[n] ELSE d[n]]

\* table[key] = entry
SetItem(table, key, entry) ==
    [k \in DOMAIN table \cup {key} |-> IF k = key THEN entry ELSE table[k]]

all_children(lt) == UNION {Range(lt[k]["children"]) : k \in DOMAIN lt}

\* the mutant forgets the cleaning pass
clean_tree_skipped(tr, lt) == tr

clean_tree(tr, lt) == SelectSeq(tr, LAMBDA task : task \notin all_children(lt))

task_kwargs(lt, task_key) == Restrict(lt[task_key], DOMAIN lt[task_key] \ {"children"})

task_children(lt, parent_key) == lt[parent_key]["children"]

----------------------------------------------------------------------------
(* The calls the configuration parsers make on the tree. Raw keys spell    *)
(* three canonical keys in several ways.                                   *)

RawKeys ==
    { <<"a">>,                          \* bundle:a
      <<"a", ".", "b">>,                \* doc:a.b
      DOCS \o <<":", "a", ".", "b">>,   \* doc:a.b
      <<".", "b">> }                    \* pattern:*.b

KwargsChoices ==
    { NoKwargs, [x |-> 1], [x |-> 2, y |-> 2], [inactive |-> TRUE] }

\* the filesystem the tree is built in: none of the raw keys names a file
FsChoices == { {} }

\* a call as last_op keeps it: the keys as given (r1, r2), the keys as
\* standardized (k1, k2), the options and the exception raised
Op(name, r1, r2, k1, k2, kw, error) ==
    [op |-> name, r1 |-> r1, r2 |-> r2, k1 |-> k1, k2 |-> k2, kw |-> kw,
     error |-> error]

NoOp == Op("none", EmptyStr, EmptyStr, EmptyStr, EmptyStr, NoKwargs, NoError)

\* the mutant appends the key without looking for it among the roots
append_root_always(tr, task_key) == Append(tr, task_key)

\* lines 19-20 and 41-42
append_root(tr, task_key) ==
    IF ~InSeq(task_key, tr) THEN Append(tr, task_key) ELSE tr

\* the mutant replaces the recorded dict instead of merging into it
add_task_info_entry_replace(lt, task_key, kwargs) ==
    IF "children" \in DOMAIN kwargs
    THEN kwargs
    ELSE update(kwargs, [children |-> <<>>])

\* lines 22-27: the dict recorded for task_key after the call
add_task_info_entry(lt, task_key, kwargs) ==
    IF task_key \in DOMAIN lt
    THEN update(lt[task_key], kwargs)
    ELSE IF "children" \in DOMAIN kwargs
         THEN kwargs
         ELSE update(kwargs, [children |-> <<>>])

add_task_info(raw_key, kwargs) ==
    /\ pc = "build"
    /\ ops_left > 0
    /\ ops_left' = ops_left - 1
    /\ LET sk == standardize_key(raw_key, fs)
           task_key == sk.key
           tree1 == append_root(tree, task_key)
           lt1 == SetItem(lookup_table, task_key,
                          add_task_info_entry(lookup_table, task_key, kwargs))
       IN  IF sk.error # NoError
           THEN /\ last_op' = Op("add_task_info", raw_key, EmptyStr, EmptyStr, EmptyStr,
                                 kwargs, sk.error)
                /\ UNCHANGED <<lookup_table, tree>>
           ELSE /\ last_op' = Op("add_task_info", raw_key, EmptyStr, task_key, EmptyStr,
                                 kwargs, NoError)
                /\ lookup_table' = lt1
                /\ tree' = clean_tree(tree1, lt1)
    /\ UNCHANGED <<fs, pc, err, walk_vars, run_vars, q_vars, adj_vars, scan_vars>>

\* the mutant records the edge without comparing the two keys
is_self_edge_never(task_key, child_task_key) == FALSE

\* line 38
is_self_edge(task_key, child_task_key) == task_key = child_task_key

\* the mutant leaves a child that has no entry without one
ensure_child_entry_skipped(lt, child_task_key) == lt

\* lines 49-50
ensure_child_entry(lt, child_task_key) ==
    IF child_task_key \notin DOMAIN lt
    THEN SetItem(lt, child_task_key, [children |-> <<>>])
    ELSE lt

add_dependency(raw_key, raw_child_key) ==
    /\ pc = "build"
    /\ ops_left > 0
    /\ ops_left' = ops_left - 1
    /\ LET sk == standardize_key(raw_key, fs)
           sc == standardize_key(raw_child_key, fs)
           task_key == sk.key
           child_task_key == sc.key
           tree1 == append_root(tree, task_key)
           lt1 == IF task_key \in DOMAIN lookup_table
                  THEN SetItem(lookup_table, task_key,
                               update(lookup_table[task_key],
                                      [children |-> Append(lookup_table[task_key]["children"],
                                                           child_task_key)]))
                  ELSE SetItem(lookup_table, task_key, [children |-> <<child_task_key>>])
           lt2 == ensure_child_entry(lt1, child_task_key)
       IN  IF sk.error # NoError \/ sc.error # NoError
           THEN /\ last_op' = Op("add_dependency", raw_key, raw_child_key, EmptyStr, EmptyStr,
                                 NoKwargs, IF sk.error # NoError THEN sk.error ELSE sc.error)
                /\ UNCHANGED <<lookup_table, tree>>
           ELSE /\ last_op' = Op("add_dependency", raw_key, raw_child_key, task_key,
                                 child_task_key, NoKwargs, NoError)
                /\ IF is_self_edge(task_key, child_task_key)
                   THEN UNCHANGED <<lookup_table, tree>>
                   ELSE /\ lookup_table' = lt2
                        /\ tree' = clean_tree(tree1, lt2)
    /\ UNCHANGED <<fs, pc, err, walk_vars, run_vars, q_vars, adj_vars, scan_vars>>

----------------------------------------------------------------------------
(* Parser.walk_ast. A task object is its index in heap; None is 0. The     *)
(* walk threads st = [heap, created, error, pass]: the objects built so    *)
(* far, the local dict created_tasks, the exception raised ("" if none)    *)
(* and the number of the pass.                                             *)

None == 0

NoTasks == [k \in {} |-> None]

\* kwargs.get('inactive')
is_inactive(kwargs) == "inactive" \in DOMAIN kwargs /\ kwargs["inactive"] = TRUE

\* the mutant builds a new object on every call
create_dexy_task_unmemoized(key, child_tasks, kwargs, st) ==
    LET q == qualify_key(key, fs)
        task == Len(st.heap) + 1
        obj == [alias |-> q.alias, pattern |-> q.pattern, children |-> child_tasks,
                kwargs |-> kwargs, pass |-> st.pass]
    IN  [st |-> [st EXCEPT !.heap = Append(st.heap, obj),
                           !.created = SetItem(st.created, key, task)],
         task |-> task]

create_dexy_task(key, child_tasks, kwargs, st) ==
    IF key \notin DOMAIN st.created
    THEN LET q == qualify_key(key, fs)
             task == Len(st.heap) + 1
             obj == [alias |-> q.alias, pattern |-> q.pattern, children |-> child_tasks,
                     kwargs |-> kwargs, pass |-> st.pass]
         IN  [st |-> [st EXCEPT !.heap = Append(st.heap, obj),
                                !.created = SetItem(st.created, key, task)],
              task |-> task]
    ELSE [st |-> st, task |-> st.created[key]]

\* the mutant keeps the None of an inactive child among the children
active_children_unfiltered(child_tasks) == child_tasks

\* line 215
active_children(child_tasks) == SelectSeq(child_tasks, LAMBDA child : child # None)

\* the mutant puts each child task before the ones built earlier
attach_front(child_tasks, task) == <<task>> \o child_tasks

\* line 212: the list comprehension collects the results in order
attach(child_tasks, task) == Append(child_tasks, task)

RECURSIVE parse_item(_, _, _)
RECURSIVE parse_children(_, _, _, _)

\* line 212: the children in their recorded order, empty keys skipped
parse_children(children, st, stack, acc) ==
    IF children = <<>> \/ st.error # NoError
    THEN [st |-> st, tasks |-> acc]
    ELSE IF Head(children) = EmptyStr
    THEN parse_children(Tail(children), st, stack, acc)
    ELSE LET r == parse_item(Head(children), st, stack)
         IN  parse_children(Tail(children), r.st, stack, attach(acc, r.task))

\* stack holds the keys whose parse_item call is in progress. A key that is
\* met again below itself is met again without end: the recursion only stops
\* at Python's recursion limit, with a RuntimeError.
parse_item(key, st, stack) ==
    LET children == task_children(lookup_table, key)
        kwargs == update(task_kwargs(lookup_table, key), [wrapper |-> "self.wrapper"])
    IN  IF is_inactive(kwargs)
        THEN [st |-> st, task |-> None]
        ELSE IF key \in stack
        THEN [st |-> [st EXCEPT !.error = "RuntimeError"], task |-> None]
        ELSE LET rc == parse_children(children, st, stack \cup {key}, <<>>)
             IN  IF rc.st.error # NoError
                 THEN [st |-> rc.st, task |-> None]
                 ELSE create_dexy_task(key, active_children(rc.tasks), kwargs, rc.st)

RECURSIVE walk_roots(_, _, _)

\* lines 219-221
walk_roots(keys, st, roots) ==
    IF keys = <<>>
    THEN [st |-> st, roots |-> roots]
    ELSE LET r == parse_item(Head(keys), st, {})
         IN  IF r.st.error # NoError
             THEN [st |-> r.st, roots |-> roots]
             ELSE walk_roots(Tail(keys), r.st, Append(roots, r.task))

\* a variant that keeps the dict of the previous pass
new_created_tasks_kept(previous) == previous

\* line 194
new_created_tasks(previous) == NoTasks

\* Parser.parse hands the tree built so far to walk_ast, which ends the
\* building of the tree; a second pass walks the same tree again.
walk_ast ==
    /\ pc \in {"build", "parsed"}
    /\ npass < MaxPasses
    /\ npass' = npass + 1
    /\ LET r == walk_roots(tree,
                           [heap |-> heap, created |-> new_created_tasks(created_tasks),
                            error |-> NoError, pass |-> npass + 1],
                           root_nodes)
       IN  /\ heap' = r.st.heap
           /\ created_tasks' = r.st.created
           /\ root_nodes' = r.roots
           /\ err' = r.st.error
           /\ pc' = IF r.st.error # NoError THEN "raised" ELSE "parsed"
    /\ last_op' = NoOp
    /\ ops_left' = 0
    /\ UNCHANGED <<fs, lookup_table, tree, run_vars, q_vars, adj_vars, scan_vars>>

----------------------------------------------------------------------------
(* The task objects as Wrapper.run uses them (dexy.task.Task): a task      *)
(* exposes its canonical key, and iterating it gives the depth-first       *)
(* sequence of itself and its descendants.                                 *)

TaskKey(t) == heap[t].alias \o <<":">> \o heap[t].pattern

RECURSIVE TaskIter(_)
RECURSIVE IterAll(_)

IterAll(ts) == IF ts = <<>> THEN <<>> ELSE TaskIter(Head(ts)) \o IterAll(Tail(ts))

TaskIter(t) == <<t>> \o IterAll(heap[t].children)

----------------------------------------------------------------------------
(* Wrapper.run *)

\* the target settings a run is started with; the empty string is the
\* default, False
TargetChoices == { EmptyStr, DOC \o <<":">>, BUNDLE \o <<":", "a">> }

\* the next batch id the database hands out (db.next_batch_id())
NextBatchId == batch_id + 1

\* the mutant selects every root whatever the target
select_docs_all(roots, tgt) == roots

\* lines 108-113
select_docs(roots, tgt) ==
    IF tgt # EmptyStr
    THEN SelectSeq(roots, LAMBDA doc : startswith(TaskKey(doc), tgt))
    ELSE roots

\* what the two nested loops of one sweep take, in order: "for task in doc"
\* over a doc that is None raises a TypeError, which the item None stands for
RECURSIVE SweepItems(_)
SweepItems(ds) ==
    IF ds = <<>> THEN <<>>
    ELSE (IF Head(ds) = None THEN <<None>> ELSE TaskIter(Head(ds))) \o SweepItems(Tail(ds))

\* the defaults of the two directories a run needs (lines 19 and 31)
artifacts_dir == <<"a", "r", "t", "i", "f", "a", "c", "t", "s">>
log_dir == <<"l", "o", "g", "s">>

\* the mutant is content with either of the two directories
check_dexy_dirs_either(files) == exists(artifacts_dir, files) \/ exists(log_dir, files)

\* lines 161-163: TRUE when the check passes, FALSE when it raises
check_dexy_dirs(files) == exists(artifacts_dir, files) /\ exists(log_dir, files)

\* lines 96-100 with check_dexy_dirs failing: setup_run raises before
\* anything else is set up
run_without_dirs ==
    /\ pc = "parsed"
    /\ ~check_dexy_dirs(fs)
    /\ pc' = "raised"
    /\ err' = "UserFeedback"
    /\ UNCHANGED <<fs, ast_vars, walk_vars, run_vars, q_vars, adj_vars, scan_vars>>

\* lines 96-115 (setup_run, the selection of the roots, the first state).
\* The target option is set on the wrapper before run() is called; the
\* wrapper is given no args, so setup_docs adds no root.
run_start(tgt) ==
    /\ pc = "parsed"
    /\ check_dexy_dirs(fs)
    /\ target' = tgt
    /\ log_ready' = TRUE
    /\ has_db' = TRUE
    /\ batch_id' = NextBatchId
    /\ IF tgt # EmptyStr /\ InSeq(None, root_nodes)
       THEN \* doc.key on a root that is None
            /\ pc' = "raised"
            /\ err' = "AttributeError"
            /\ UNCHANGED <<state, docs, phase_pos>>
       ELSE /\ docs' = select_docs(root_nodes, tgt)
            /\ state' = "populating"
            /\ phase_pos' = 0
            /\ pc' = "sweep"
            /\ err' = NoError
    /\ UNCHANGED <<fs, ast_vars, walk_vars, invoked, db_saves, graph_built, q_vars, adj_vars, scan_vars>>

\* lines 117-119, 123-125, 129-131: one task() call that returns
task_returns ==
    /\ pc = "sweep"
    /\ phase_pos < Len(SweepItems(docs))
    /\ SweepItems(docs)[phase_pos + 1] # None
    /\ invoked' = Append(invoked, <<SweepItems(docs)[phase_pos + 1], state>>)
    /\ phase_pos' = phase_pos + 1
    /\ UNCHANGED <<fs, ast_vars, walk_vars, target, state, docs, log_ready, has_db,
                   batch_id, db_saves, graph_built, pc, err, q_vars, adj_vars, scan_vars>>

\* the same call raising: nothing in run() catches it
task_raises ==
    /\ pc = "sweep"
    /\ phase_pos < Len(SweepItems(docs))
    /\ SweepItems(docs)[phase_pos + 1] # None
    /\ invoked' = Append(invoked, <<SweepItems(docs)[phase_pos + 1], state>>)
    /\ pc' = "raised"
    /\ err' = "TaskError"
    /\ UNCHANGED <<fs, ast_vars, walk_vars, target, state, docs, phase_pos, log_ready,
                   has_db, batch_id, db_saves, graph_built, q_vars, adj_vars, scan_vars>>

\* "for task in doc" reaching a root that is None
iterate_none ==
    /\ pc = "sweep"
    /\ phase_pos < Len(SweepItems(docs))
    /\ SweepItems(docs)[phase_pos + 1] = None
    /\ pc' = "raised"
    /\ err' = "TypeError"
    /\ UNCHANGED <<fs, ast_vars, walk_vars, run_vars, q_vars, adj_vars, scan_vars>>

\* the mutant goes from populating straight to running
next_state_skipping(st) ==
    IF st = "populating" THEN "running" ELSE "complete"

\* lines 121, 127, 133
next_state(st) ==
    IF st = "populating" THEN "settingup"
    ELSE IF st = "settingup" THEN "running"
    ELSE "complete"

\* lines 121 and 127: the sweep is over, the next one begins
next_sweep ==
    /\ pc = "sweep"
    /\ phase_pos = Len(SweepItems(docs))
    /\ next_state(state) # "complete"
    /\ state' = next_state(state)
    /\ phase_pos' = 0
    /\ UNCHANGED <<fs, ast_vars, walk_vars, target, docs, invoked, log_ready, has_db,
                   batch_id, db_saves, graph_built, pc, err, q_vars, adj_vars, scan_vars>>

\* lines 133-139: after the third sweep
finish_run ==
    /\ pc = "sweep"
    /\ phase_pos = Len(SweepItems(docs))
    /\ next_state(state) = "complete"
    /\ state' = "complete"
    /\ db_saves' = db_saves + 1
    /\ graph_built' = TRUE
    /\ pc' = "done"
    /\ UNCHANGED <<fs, ast_vars, walk_vars, target, docs, phase_pos, invoked, log_ready,
                   has_db, batch_id, err, q_vars, adj_vars, scan_vars>>

\* Wrapper.cleanup_partial_run, which the caller of run() may call once the
\* exception has reached it
cleanup_partial_run ==
    /\ pc = "raised"
    /\ pc' = "cleaned"
    /\ db_saves' = IF has_db THEN db_saves + 1 ELSE db_saves
    /\ UNCHANGED <<fs, ast_vars, walk_vars, target, state, docs, phase_pos, invoked,
                   log_ready, has_db, batch_id, graph_built, err, q_vars, adj_vars, scan_vars>>

----------------------------------------------------------------------------
(* The specifications. Spec is the tree and the walk: the parser's calls   *)
(* on the tree, then walk_ast. SpecRun goes on to Wrapper.run.             *)

Unset == [error |-> "unset", key |-> EmptyStr]

\* the state after AbstractSyntaxTree() and Wrapper(), with n calls to come
Constructed(n) ==
    /\ lookup_table = [k \in {} |-> NoKwargs]
    /\ tree = <<>>
    /\ last_op = NoOp
    /\ ops_left = n
    /\ heap = <<>>
    /\ created_tasks = NoTasks
    /\ npass = 0
    /\ root_nodes = <<>>
    /\ target = EmptyStr
    /\ state = "None"
    /\ docs = <<>>
    /\ phase_pos = 0
    /\ invoked = <<>>
    /\ log_ready = FALSE
    /\ has_db = FALSE
    /\ batch_id = 0
    /\ db_saves = 0
    /\ graph_built = FALSE
    /\ err = NoError
    /\ q_once = Unset
    /\ q_twice = Unset
    /\ q_qual = Unset
    /\ a_out = Unset
    /\ w_todo = <<>>
    /\ w_out = <<>>

Init ==
    /\ Constructed(MaxOps)
    /\ fs \in FsChoices
    /\ pc = "build"
    /\ q_key = EmptyStr
    /\ a_dir = EmptyStr
    /\ a_cfg = EmptyStr

Next ==
    \/ \E k \in RawKeys, kw \in KwargsChoices : add_task_info(k, kw)
    \/ \E k \in RawKeys, c \in RawKeys : add_dependency(k, c)
    \/ walk_ast

Spec == Init /\ [][Next]_vars

\* the filesystem a run starts in: "dexy setup" has made both directories,
\* one of them, or none
RunFsChoices == SUBSET {artifacts_dir, log_dir}

InitRun ==
    /\ Constructed(MaxRunOps)
    /\ fs \in RunFsChoices
    /\ pc = "build"
    /\ q_key = EmptyStr
    /\ a_dir = EmptyStr
    /\ a_cfg = EmptyStr

NextRun ==
    \/ \E k \in RawKeys, kw \in KwargsChoices : add_task_info(k, kw)
    \/ \E k \in RawKeys, c \in RawKeys : add_dependency(k, c)
    \/ walk_ast
    \/ run_without_dirs
    \/ \E tgt \in TargetChoices : run_start(tgt)
    \/ task_returns
    \/ task_raises
    \/ iterate_none
    \/ next_sweep
    \/ finish_run
    \/ cleanup_partial_run

SpecRun == InitRun /\ [][NextRun]_vars

----------------------------------------------------------------------------
(* The specification of the key qualifier alone: a key and a filesystem    *)
(* are drawn, and standardize_key is applied to the key and to its result. *)

KeyChars == {"a", ".", "*", "|", ":"}

KeyPrefixes ==
    { EmptyStr, DOC \o <<":">>, DOCS \o <<":">>, BUNDLE \o <<":">>,
      PATTERN \o <<":">>, <<"x", ":">> }

KeyPatterns == UNION {[1..n -> KeyChars] : n \in 0..MaxPatLen}

KeyInputs == {p \o s : p \in KeyPrefixes, s \in KeyPatterns}

KeyFsChoices == SUBSET {<<"a">>, <<".", "a">>, <<"*", ".", "a">>}

InitKey ==
    /\ Constructed(0)
    /\ fs \in KeyFsChoices
    /\ pc = "key"
    /\ q_key \in KeyInputs
    /\ a_dir = EmptyStr
    /\ a_cfg = EmptyStr

standardize_first ==
    /\ pc = "key"
    /\ q_once = Unset
    /\ q_once' = standardize_key(q_key, fs)
    /\ UNCHANGED <<fs, ast_vars, walk_vars, run_vars, pc, err, q_key, q_twice,
                   q_qual, adj_vars, scan_vars>>

standardize_again ==
    /\ pc = "key"
    /\ q_once.error = NoError
    /\ q_twice = Unset
    /\ q_twice' = standardize_key(q_once.key, fs)
    /\ UNCHANGED <<fs, ast_vars, walk_vars, run_vars, pc, err, q_key, q_once,
                   q_qual, adj_vars, scan_vars>>

\* qualify_key(q_key), the error field added to the pair it returns
qualify ==
    /\ pc = "key"
    /\ q_qual = Unset
    /\ q_qual' = qualify_key(q_key, fs)
    /\ UNCHANGED <<fs, ast_vars, walk_vars, run_vars, pc, err, q_key, q_once, q_twice,
                   adj_vars, scan_vars>>

NextKey ==
    \/ standardize_first
    \/ standardize_again
    \/ qualify

SpecKey == InitKey /\ [][NextKey]_vars

----------------------------------------------------------------------------
(* The specification of adjust_task_key alone: the directory a             *)
(* configuration entry is applied in, the directory of its configuration   *)
(* file, a key and a filesystem are drawn, and the key is adjusted.        *)

\* the directories as os.walk(".") names them
AdjustDirs == { <<".">>, <<".", "/", "d">>, <<".", "/", "d", "/", "e">> }

AdjustPatterns ==
    { <<"a">>,
      <<"a", ".", "b">>,
      <<"a", ".", "b", "|", "f">>,
      <<"*", ".", "b">>,
      <<".", "b">>,
      <<".", ".", "/", "a", ".", "b">>,
      <<"e", "/", "a">> }

AdjustKeys ==
    {p \o s : p \in KeyPrefixes, s \in AdjustPatterns} \cup {<<"a", ":", "b", ":", "c">>}

AdjustFsChoices ==
    SUBSET { <<"a", ".", "b">>, <<"d", "/", "a", ".", "b">>, <<"a">>, <<"d", "/", "e", "/", "a">> }

InitAdjust ==
    /\ Constructed(0)
    /\ fs \in AdjustFsChoices
    /\ pc = "adjust"
    /\ q_key \in AdjustKeys
    /\ a_dir \in AdjustDirs
    /\ a_cfg \in AdjustDirs

adjust ==
    /\ pc = "adjust"
    /\ a_out = Unset
    /\ a_out' = adjust_task_key(a_dir, a_cfg, q_key, fs)
    /\ UNCHANGED <<fs, ast_vars, walk_vars, run_vars, pc, err, q_vars, a_dir, a_cfg,
                   scan_vars>>

NextAdjust == adjust

SpecAdjust == InitAdjust /\ [][NextAdjust]_vars

----------------------------------------------------------------------------
(* The specification of the tree under keys of any category: the calls of  *)
(* Spec, with a key whose category is in no ALIASES list among the keys.   *)

CategoryKeys == RawKeys \cup { <<"x", ":", "a">> }

InitCategories ==
    /\ Constructed(MaxRunOps)
    /\ fs \in FsChoices
    /\ pc = "build"
    /\ q_key = EmptyStr
    /\ a_dir = EmptyStr
    /\ a_cfg = EmptyStr

NextCategories ==
    \/ \E k \in CategoryKeys, kw \in KwargsChoices : add_task_info(k, kw)
    \/ \E k \in CategoryKeys, c \in CategoryKeys : add_dependency(k, c)

SpecCategories == InitCategories /\ [][NextCategories]_vars

----------------------------------------------------------------------------
(* Wrapper.walk: os.walk(start) visits the directories top-down, one per   *)
(* iteration of the loop, and descends into what the loop body has left    *)
(* in dirnames.                                                            *)

\* line 27 and lines 373-374: the names in the exclude setting
exclude_dirs ==
    { <<".", "g", "i", "t">>,
      <<".", "s", "v", "n">>,
      <<"t", "m", "p">>,
      <<"c", "a", "c", "h", "e">>,
      <<"a", "r", "t", "i", "f", "a", "c", "t", "s">>,
      <<"l", "o", "g", "s">>,
      <<"o", "u", "t", "p", "u", "t">>,
      <<"o", "u", "t", "p", "u", "t", "-", "l", "o", "n", "g">> }

NODEXY == <<".", "n", "o", "d", "e", "x", "y">>

\* the names of the filesystems drawn: d and tmp are directories, f and
\* .nodexy are files, in the order os.listdir gives them
ScanDirNames == << <<"d">>, <<"t", "m", "p">> >>
ScanFileNames == << <<"f">>, NODEXY >>

\* the start directory of the walk
ScanStart == <<".">>

ScanDirs ==
    { ScanStart,
      posixpath_join(ScanStart, <<"d">>),
      posixpath_join(posixpath_join(ScanStart, <<"d">>), <<"d">>),
      posixpath_join(ScanStart, <<"t", "m", "p">>) }

ScanPaths ==
    (ScanDirs \ {ScanStart})
        \cup {posixpath_join(d, ScanFileNames[i]) : d \in ScanDirs, i \in 1..Len(ScanFileNames)}

\* the directory a path is an entry of
dirname(path) ==
    LET parts == split(path, "/")
    IN  str_join(SubSeq(parts, 1, Len(parts) - 1), "/")

\* the filesystems of the scan: every entry is in a directory that exists
ScanFsChoices ==
    {S \in SUBSET ScanPaths : \A path \in S : dirname(path) \in S \cup {ScanStart}}

\* the entries of dirpath among names, in the order of names
listdir(dirpath, names, files) ==
    SelectSeq(names, LAMBDA n : exists(posixpath_join(dirpath, n), files))

\* lines 380-387, one iteration: the dirnames left to os.walk and the pairs
\* yielded
walk_dir_result(dirpath, files) ==
    LET dirnames == SelectSeq(listdir(dirpath, ScanDirNames, files),
                              LAMBDA x : x \notin exclude_dirs)
        filenames == listdir(dirpath, ScanFileNames, files)
        nodexy_file == posixpath_join(dirpath, NODEXY)
    IN  [dirnames |-> dirnames,
         yielded |-> IF ~exists(nodexy_file, files)
                     THEN [i \in 1..Len(filenames) |-> <<dirpath, filenames[i]>>]
                     ELSE <<>>]

\* line 376: walk(start) is called and os.walk(start) begins
walk_start ==
    /\ pc = "scan"
    /\ pc' = "scanning"
    /\ w_todo' = <<ScanStart>>
    /\ w_out' = <<>>
    /\ UNCHANGED <<fs, ast_vars, walk_vars, run_vars, err, q_vars, adj_vars>>

\* lines 379-387: one iteration of the loop over os.walk(start)
walk_dir ==
    /\ pc = "scanning"
    /\ w_todo # <<>>
    /\ LET dirpath == Head(w_todo)
           r == walk_dir_result(dirpath, fs)
           below == [i \in 1..Len(r.dirnames) |-> posixpath_join(dirpath, r.dirnames[i])]
       IN  /\ w_out' = w_out \o r.yielded
           /\ w_todo' = below \o Tail(w_todo)
           /\ pc' = IF below \o Tail(w_todo) = <<>> THEN "scanned" ELSE "scanning"
    /\ UNCHANGED <<fs, ast_vars, walk_vars, run_vars, err, q_vars, adj_vars>>

InitScan ==
    /\ Constructed(0)
    /\ fs \in ScanFsChoices
    /\ pc = "scan"
    /\ q_key = EmptyStr
    /\ a_dir = EmptyStr
    /\ a_cfg = EmptyStr

NextScan ==
    \/ walk_start
    \/ walk_dir

SpecScan == InitScan /\ [][NextScan]_vars

----------------------------------------------------------------------------
(* Properties of the tree *)

\* C1: after every add_task_info and add_dependency call, no key of the root
\* sequence tree is in the children list of any lookup_table entry.
C1_RootsAreNotChildren ==
    \A i \in 1..Len(tree) : tree[i] \notin all_children(lookup_table)

\* an add_dependency call has just made a child of a key that add_task_info
\* had recorded, and roots remain
C1_Witness ==
    /\ last_op.op = "add_dependency"
    /\ last_op.error = NoError
    /\ last_op.k2 \in DOMAIN lookup_table
    /\ task_kwargs(lookup_table, last_op.k2) # NoKwargs
    /\ last_op.k2 \in all_children(lookup_table)
    /\ ~InSeq(last_op.k2, tree)
    /\ tree # <<>>

----------------------------------------------------------------------------
(* Properties of walk_ast *)

\* the key a task object was created for
KeyOf(t) == heap[t].alias \o <<":">> \o heap[t].pattern

Tasks == 1..Len(heap)

ActiveKey(k) == ~is_inactive(task_kwargs(lookup_table, k))

\* the latest walk_ast pass ran to its end
WalkCompleted == npass > 0 /\ err # "RuntimeError"

\* C4: one walk_ast pass creates at most one task object per key, two
\* parents of one pass that list the same key hold the same object, and
\* passes share no object: an object's children are of its own pass, the
\* latest pass's dict holds objects of that pass only, and no object is
\* appended to root_nodes twice.
C4_OneObjectPerKeyPerPass ==
    /\ \A t, u \in Tasks :
          (heap[t].pass = heap[u].pass /\ KeyOf(t) = KeyOf(u)) => t = u
    /\ \A t, u \in Tasks : \A c \in Range(heap[t].children), d \in Range(heap[u].children) :
          (heap[t].pass = heap[u].pass /\ KeyOf(c) = KeyOf(d)) => c = d
    /\ \A t \in Tasks : \A c \in Range(heap[t].children) : heap[c].pass = heap[t].pass
    /\ \A k \in DOMAIN created_tasks :
          heap[created_tasks[k]].pass = npass /\ KeyOf(created_tasks[k]) = k
    /\ \A i, j \in 1..Len(root_nodes) :
          (root_nodes[i] # None /\ root_nodes[i] = root_nodes[j]) => i = j

\* two passes over a tree in which two parents list the same key
C4_Witness ==
    /\ npass = 2
    /\ pc = "parsed"
    /\ \E t, u \in Tasks :
          /\ t # u
          /\ heap[t].pass = 2
          /\ heap[u].pass = 2
          /\ Range(heap[t].children) \cap Range(heap[u].children) # {}
    /\ \E t, u \in Tasks : heap[t].pass = 1 /\ heap[u].pass = 2 /\ KeyOf(t) = KeyOf(u)

\* C5: no task object exists for a key whose options mark it inactive, no
\* task has None or the object of an inactive key among its children, and
\* after a completed pass every root key that is not inactive has its
\* object, whose children are the objects of its children that are not
\* inactive, in order (none when all are inactive).
C5_InactiveKeysAreSkipped ==
    /\ \A t \in Tasks :
          /\ KeyOf(t) \in DOMAIN lookup_table
          /\ ActiveKey(KeyOf(t))
          /\ ~InSeq(None, heap[t].children)
    /\ WalkCompleted =>
          /\ \A i \in 1..Len(tree) : ActiveKey(tree[i]) => tree[i] \in DOMAIN created_tasks
          /\ \A k \in DOMAIN created_tasks :
                LET kept == SelectSeq(task_children(lookup_table, k), ActiveKey)
                IN  /\ Range(kept) \subseteq DOMAIN created_tasks
                    /\ heap[created_tasks[k]].children =
                           [i \in 1..Len(kept) |-> created_tasks[kept[i]]]

\* a root that is not inactive, all of whose children are, has its object
C5_Witness ==
    /\ WalkCompleted
    /\ \E i \in 1..Len(tree) :
          /\ ActiveKey(tree[i])
          /\ task_children(lookup_table, tree[i]) # <<>>
          /\ \A c \in Range(task_children(lookup_table, tree[i])) : ~ActiveKey(c)
          /\ tree[i] \in DOMAIN created_tasks
          /\ heap[created_tasks[tree[i]]].children = <<>>
          /\ InSeq(created_tasks[tree[i]], root_nodes)

----------------------------------------------------------------------------
(* Properties of Wrapper.run *)

Phases == <<"populating", "settingup", "running">>

PhaseRank(st) == CHOOSE i \in 1..3 : Phases[i] = st

\* the tasks invoked under state st, in the order of the calls
InvokedIn(st) ==
    LET calls == SelectSeq(invoked, LAMBDA call : call[2] = st)
    IN  [i \in 1..Len(calls) |-> calls[i][1]]

CallCount(t, st) == Cardinality({i \in 1..Len(invoked) : invoked[i] = <<t, st>>})

\* C2: tasks are only invoked under populating, settingup and running, in
\* that order; the state is settingup only once the populating sweep has
\* taken every task of every selected root, running only once the
\* settingup sweep has, and complete only once the running sweep has.
C2_SweepsInOrder ==
    LET items == SweepItems(docs)
        later == {invoked[i][2] : i \in 1..Len(invoked)} \ {"populating"}
    IN  /\ \A i \in 1..Len(invoked) : invoked[i][2] \in Range(Phases)
        /\ \A i \in 1..(Len(invoked) - 1) :
              PhaseRank(invoked[i][2]) <= PhaseRank(invoked[i + 1][2])
        /\ later # {} => InvokedIn("populating") = items
        /\ "running" \in later => InvokedIn("settingup") = items
        /\ state \in {"settingup", "running", "complete"} =>
              InvokedIn("populating") = items
        /\ state \in {"running", "complete"} => InvokedIn("settingup") = items
        /\ state = "complete" => InvokedIn("running") = items

\* a run over two roots and three tasks or more has completed
C2_Witness ==
    /\ state = "complete"
    /\ Len(docs) >= 2
    /\ Len(SweepItems(docs)) >= 3
    /\ Len(invoked) = 3 * Len(SweepItems(docs))

\* C3: once a run has completed, every task in the depth-first sequence of
\* a selected root has been invoked exactly once under each of the three
\* states.
C3_ExactlyOncePerPhase ==
    state = "complete" =>
        \A t \in Range(SweepItems(docs)) : \A i \in 1..3 : CallCount(t, Phases[i]) = 1

\* the roots the target setting selects
SelectedRoots ==
    {root_nodes[i] : i \in {j \in 1..Len(root_nodes) :
        /\ root_nodes[j] # None
        /\ target # EmptyStr => startswith(TaskKey(root_nodes[j]), target)}}

\* the tasks in the depth-first sequences of the selected roots
SelectedTasks == UNION {Range(TaskIter(r)) : r \in SelectedRoots}

RunStarted == state # "None"

\* C9: in a run, only tasks in the depth-first sequences of the selected
\* roots (those whose key starts with the target; all of them when there is
\* no target) are invoked, and a sweep that has ended has invoked exactly
\* these; a root whose key does not start with the target is not among the
\* roots of the sweeps, is never invoked and is still in root_nodes.
C9_TargetSelectsRoots ==
    LET selected == SelectedTasks
        called == {invoked[i][1] : i \in 1..Len(invoked)}
    IN  RunStarted =>
            /\ called \subseteq selected
            /\ target = EmptyStr => docs = root_nodes
            /\ Range(docs) \ {None} = SelectedRoots
            /\ \A i \in 1..Len(root_nodes) :
                  (root_nodes[i] # None /\ root_nodes[i] \notin SelectedRoots) =>
                      ~InSeq(root_nodes[i], docs) /\ root_nodes[i] \notin called
            /\ state \in {"settingup", "running", "complete"} =>
                  Range(InvokedIn("populating")) = selected
            /\ state \in {"running", "complete"} =>
                  Range(InvokedIn("settingup")) = selected
            /\ state = "complete" => Range(InvokedIn("running")) = selected

\* a run with a target has completed; one root was selected, one was not
C9_Witness ==
    /\ state = "complete"
    /\ target # EmptyStr
    /\ SelectedRoots # {}
    /\ \E i \in 1..Len(root_nodes) :
          root_nodes[i] # None /\ root_nodes[i] \notin SelectedRoots

\* C10: when a task invocation has raised out of run(), db.save has been
\* called by the time the exception reaches the caller.
C10_SavedBeforeErrorReachesCaller ==
    (pc = "raised" /\ err = "TaskError") => db_saves > 0

----------------------------------------------------------------------------
(* Properties of the key qualifier *)

\* C8: when standardize_key(k) returns, standardize_key of its result
\* returns the same key.
C8_StandardizeKeyIdempotent ==
    q_twice # Unset => q_twice = q_once

\* a key that standardize_key rewrote has been standardized twice
C8_Witness ==
    /\ q_twice # Unset
    /\ q_once.key # q_key
    /\ q_once.key # DOC \o <<":">> \o q_key
    /\ q_once.key # BUNDLE \o <<":">> \o q_key

\* C11: for a key with no ":", qualify_key returns the key as the pattern,
\* with "*" put before it when it starts with "." and no file has that very
\* name; the category is doc when the pattern up to its first "|" names a
\* file, else bundle when the pattern has neither "." nor "|", else pattern
\* when it has a "*", else doc. "*.a" and ".a", no such files, both give
\* (pattern, "*.a").
C11_QualifyKeyRuleOrder ==
    (q_qual # Unset /\ ~HasChar(q_key, ":")) =>
        LET dotted == q_key # EmptyStr /\ q_key[1] = "." /\ q_key \notin fs
            p == IF dotted THEN <<"*">> \o q_key ELSE q_key
            stem == IF \E i \in 1..Len(p) : p[i] = "|"
                    THEN SubSeq(p, 1, (CHOOSE i \in 1..Len(p) :
                                         p[i] = "|" /\ \A j \in 1..(i - 1) : p[j] # "|") - 1)
                    ELSE p
            chars == {p[i] : i \in 1..Len(p)}
        IN  /\ q_qual.error = NoError
            /\ q_qual.pattern = p
            /\ stem \in fs => q_qual.alias = DOC
            /\ (stem \notin fs /\ "." \notin chars /\ "|" \notin chars) =>
                   q_qual.alias = BUNDLE
            /\ (stem \notin fs /\ ("." \in chars \/ "|" \in chars) /\ "*" \in chars) =>
                   q_qual.alias = PATTERN
            /\ (stem \notin fs /\ ("." \in chars \/ "|" \in chars) /\ "*" \notin chars) =>
                   q_qual.alias = DOC
            /\ (q_key \in {<<"*", ".", "a">>, <<".", "a">>} /\ fs = {}) =>
                   (q_qual.alias = PATTERN /\ q_qual.pattern = <<"*", ".", "a">>)

\* a key with no "." and no "|" that names a file has been qualified: the
\* file rule came before the bundle rule
C11_Witness ==
    /\ q_qual # Unset
    /\ q_key = <<"a">>
    /\ q_key \in fs
    /\ q_qual.alias = DOC

\* C12: for a key whose category is registered, adjust_task_key raises
\* nothing, and it returns a key exactly when the category is pattern, or
\* doc with the adjusted path up to its first "|" on the filesystem or with
\* directory = config_dirpath, or bundle with directory = config_dirpath;
\* the key returned is the category, ":" and the adjusted path.
C12_AdjustTaskKeyAccepts ==
    LET q == qualify_key(q_key, fs)
        path == adjusted_key(a_dir, q.pattern)
        bar == IF \E i \in 1..Len(path) : path[i] = "|"
               THEN CHOOSE i \in 1..Len(path) : path[i] = "|" /\ \A j \in 1..(i - 1) : path[j] # "|"
               ELSE Len(path) + 1
        stem == SubSeq(path, 1, bar - 1)
        wanted == \/ q.alias = PATTERN
                  \/ q.alias = DOC /\ (stem \in fs \/ a_dir = a_cfg)
                  \/ q.alias = BUNDLE /\ a_dir = a_cfg
    IN  (a_out # Unset /\ q.error = NoError) =>
            /\ a_out.error = NoError
            /\ a_out.returned <=> wanted
            /\ a_out.returned => a_out.key = q.alias \o <<":">> \o path

\* a doc key with a "|" suffix declared in a directory above has been
\* accepted in ./d because d/a.b exists
C12_Witness ==
    /\ a_out # Unset
    /\ q_key = <<"a", ".", "b", "|", "f">>
    /\ a_dir = <<".", "/", "d">>
    /\ a_cfg = <<".">>
    /\ a_out.returned
    /\ a_out.key = DOC \o <<":", "d", "/", "a", ".", "b", "|", "f">>

----------------------------------------------------------------------------
(* Properties of the tree under keys of any category *)

\* the key names a category, and no task class has it among its aliases
UnknownCategory(key) ==
    /\ \E i \in 1..Len(key) : key[i] = ":"
    /\ \A c \in TaskClasses : \A i \in 1..Len(c) :
          ~(Len(c[i]) < Len(key) /\ SubSeq(key, 1, Len(c[i]) + 1) = c[i] \o <<":">>)

\* C13: an add_task_info or add_dependency call given a key whose category
\* is not registered fails with a ConfigurationError and leaves the root
\* sequence and the lookup table as they were.
C13_UnknownCategoryIsConfigurationError ==
    [][(UnknownCategory(last_op'.r1) \/ UnknownCategory(last_op'.r2))
       => /\ last_op'.error = "ConfigurationError"
          /\ UNCHANGED <<tree, lookup_table>>]_vars

----------------------------------------------------------------------------
(* Properties of the start of a run *)

\* C14: when the artifacts directory or the log directory is missing, run()
\* fails with UserFeedback and nothing of the run has happened: no log, no
\* database, no batch id, no task invoked, and the state of the wrapper is
\* the one the constructor set.
C14_MissingDirsFailFast ==
    (artifacts_dir \notin fs \/ log_dir \notin fs) =>
        /\ ~log_ready
        /\ ~has_db
        /\ batch_id = 0
        /\ invoked = <<>>
        /\ state = "None"
        /\ db_saves = 0
        /\ pc \notin {"sweep", "done"}
        /\ (pc \in {"raised", "cleaned"} /\ err # "RuntimeError") => err = "UserFeedback"

\* run() has failed over a missing log directory with a root task waiting
C14_Witness ==
    /\ artifacts_dir \in fs
    /\ log_dir \notin fs
    /\ pc = "raised"
    /\ err = "UserFeedback"
    /\ \E i \in 1..Len(root_nodes) : root_nodes[i] # None

----------------------------------------------------------------------------
(* Properties of Wrapper.walk *)

\* path is dir itself or an entry below it
Under(dir, path) == path = dir \/ startswith(path, dir \o <<"/">>)

HasStopFile(dir) == dir \o <<"/">> \o NODEXY \in fs

\* the directories a walk that stops below stop files would look at: no
\* directory on the way down to them is excluded or has the stop file
Looked ==
    {dir \in ScanDirs :
        /\ dir \in fs \cup {ScanStart}
        /\ \A above \in ScanDirs :
              (above # dir /\ Under(above, dir)) => ~HasStopFile(above)
        /\ \A part \in Range(split(dir, "/")) : part \notin exclude_dirs}

\* C15: once the walk is over, for every directory it looked at that holds
\* the stop file, each file of the directory has been yielded with it, and
\* no pair has been yielded for a directory below it.
C15_StopFileKeepsOwnFiles ==
    pc = "scanned" =>
        \A dir \in Looked :
            HasStopFile(dir) =>
                /\ \A i \in 1..Len(ScanFileNames) :
                      dir \o <<"/">> \o ScanFileNames[i] \in fs
                          => InSeq(<<dir, ScanFileNames[i]>>, w_out)
                /\ \A i \in 1..Len(w_out) :
                      Under(dir, w_out[i][1]) => w_out[i][1] = dir

----------------------------------------------------------------------------
(* Properties of the shape of the tree *)

RECURSIVE ReachedIn(_, _)
ReachedIn(S, n) ==
    IF n = 0 THEN S
    ELSE ReachedIn(S \cup UNION {Range(lookup_table[k]["children"]) : k \in S}, n - 1)

\* the keys below k: its children, their children, and so on
KeysBelow(k) ==
    ReachedIn(Range(lookup_table[k]["children"]), Cardinality(DOMAIN lookup_table))

\* C17: no key is below itself, that is, reachable from itself along the
\* children lists of lookup_table.
C17_TreeIsAcyclic ==
    \A k \in DOMAIN lookup_table : k \notin KeysBelow(k)

----------------------------------------------------------------------------
(* Properties of the order in which walk_ast builds the tasks. A task is   *)
(* its index in heap, so t < u says that t was created before u.           *)

\* C18: the children of every task object are the objects of its key's
\* children that are not inactive, in the order lookup_table records them;
\* each was created before the task, in the same pass; and of two children
\* the one recorded first was created first, unless the later one had been
\* built already for an earlier place in the tree (an earlier position in
\* the list or another parent).
C18_ChildrenBuiltInOrderBeforeParent ==
    \A t \in Tasks :
        LET ch == heap[t].children
            kept == SelectSeq(task_children(lookup_table, KeyOf(t)), ActiveKey)
        IN  /\ Len(ch) = Len(kept)
            /\ \A i \in 1..Len(ch) :
                  /\ KeyOf(ch[i]) = kept[i]
                  /\ ch[i] < t
                  /\ heap[ch[i]].pass = heap[t].pass
            /\ \A i, j \in 1..Len(ch) :
                  (/\ i < j
                   /\ \A m \in 1..i : ch[m] # ch[j]
                   /\ \A u \in Tasks \ {t} : ~InSeq(ch[j], heap[u].children))
                  => ch[i] < ch[j]

\* a pass has built a task with two children that only it has, after both
C18_Witness ==
    /\ pc = "parsed"
    /\ \E t \in Tasks :
          /\ Len(heap[t].children) = 2
          /\ heap[t].children[1] < heap[t].children[2]
          /\ heap[t].children[2] < t
          /\ \A u \in Tasks \ {t} : heap[u].children = <<>>

\* C19: every walk_ast pass comes to its end and returns: the recursion of
\* parse_item is finite on every tree the calls can build.
C19_WalkAstTerminates ==
    npass > 0 => (pc = "parsed" /\ err = NoError)

\* C20: no element of root_nodes is None: walk_ast appends a task object
\* for each root key that is not inactive and nothing for one that is.
C20_RootNodesAreTasks ==
    \A i \in 1..Len(root_nodes) : root_nodes[i] # None

----------------------------------------------------------------------------
(* Properties of the root sequence *)

====
